---- MODULE Spec2Model ----
(***************************************************************************)
(* SendaMeal product search: the four MCP tool handlers registered by      *)
(* SendaMealMCP.init() and the path router of the default export's fetch,  *)
(* modelled from src/src/index.ts.                                         *)
(*                                                                         *)
(* Texts are TLA+ strings built exactly as the template literals build     *)
(* them.  A JavaScript value that may be undefined is a record             *)
(* [present, value]; `x || d` and `${x}` are the operators OrElse and      *)
(* Template below.                                                         *)
(***************************************************************************)
EXTENDS Integers, Sequences, FiniteSets, TLC

\* pc[i]      where invocation i stands: "idle", "awaiting" (suspended at the
\*            await of env.AI.autorag), "done" (the handler has finished)
\* tool[i]    the tool invoked; args[i] its validated arguments
\* calls[i]   the Search Requests invocation i has passed to autorag
\* outcome[i] what the awaited call resolved or rejected with
\* result[i]  what the handler returned, or that an exception left it
\* settled    the invocations in the order their calls settled
\* httpLog    the requests fetch has served, each with its response
VARIABLES pc, tool, args, calls, outcome, result, settled, httpLog

vars == <<pc, tool, args, calls, outcome, result, settled, httpLog>>

handlerVars == <<pc, tool, args, calls, outcome, result, settled>>

(***************************************************************************)
(* Bounds of the model.                                                    *)
(***************************************************************************)
\* number of tool invocations that may be in flight together
MaxInFlight == 2
\* longest results sequence the search capability returns
MaxItems == 2
\* number of HTTP requests the router log keeps
MaxRequests == 2

Invocations == 1..MaxInFlight

(***************************************************************************)
(* JavaScript values.                                                      *)
(***************************************************************************)
Absent == [present |-> FALSE, value |-> ""]

Some(v) == [present |-> TRUE, value |-> v]

NoNumber == [present |-> FALSE, value |-> 0]

\* truthiness of a possibly-undefined string: undefined and "" are falsy
Truthy(o) == o.present /\ o.value # ""

\* o || d
OrElse(o, d) == IF Truthy(o) THEN o.value ELSE d

\* ${o} inside a template literal
Template(o) == IF o.present THEN o.value ELSE "undefined"

\* Array.prototype.join
RECURSIVE Join(_, _)
Join(lines, sep) ==
    IF Len(lines) = 0 THEN ""
    ELSE IF Len(lines) = 1 THEN lines[1]
    ELSE lines[1] \o sep \o Join(Tail(lines), sep)

StartsWith(s, p) == Len(p) <= Len(s) /\ SubSeq(s, 1, Len(p)) = p

EndsWith(s, p) == Len(p) <= Len(s) /\ SubSeq(s, Len(s) - Len(p) + 1, Len(s)) = p

Contains(s, p) ==
    \E k \in 1..(Len(s) - Len(p) + 1) : SubSeq(s, k, k + Len(p) - 1) = p

(***************************************************************************)
(* The search capability (env.AI.autorag) and what it may answer.          *)
(***************************************************************************)
AutoragIndex == "cool-bush-e0f4"

\* the object literal passed to this.env.AI.autorag
SearchRequest(q, n) == [index |-> AutoragIndex, query |-> q, maxResults |-> n]

\* a tool response with one text block
TextResponse(t) == [kind |-> "response", content |-> <<[type |-> "text", text |-> t]>>]

\* the handler's promise rejects: an exception leaves the handler
Escapes == [kind |-> "exception", content |-> <<>>]

NoResult == [kind |-> "none", content |-> <<>>]

\* results is null/undefined, or has no results field, or carries a sequence
NoResponse == [present |-> FALSE, hasResults |-> FALSE, results |-> <<>>]

NoResultsField == [present |-> TRUE, hasResults |-> FALSE, results |-> <<>>]

Results(items) == [present |-> TRUE, hasResults |-> TRUE, results |-> items]

\* !results || !results.results || results.results.length === 0
IsEmpty(resp) == ~resp.present \/ ~resp.hasResults \/ Len(resp.results) = 0

NoThrown == [type |-> "none", message |-> Absent]

Pending == [kind |-> "pending", response |-> NoResponse, thrown |-> NoThrown]

Resolved(resp) == [kind |-> "resolved", response |-> resp, thrown |-> NoThrown]

Rejected(thrown) == [kind |-> "rejected", response |-> NoResponse, thrown |-> thrown]

\* variant of Catch: the text is built from String(error), not error.message
Catch_StringOfError(prefix, thrown) ==
    IF thrown.type \in {"null", "undefined"}
    THEN TextResponse(prefix \o thrown.type)
    ELSE TextResponse(prefix \o "Error: " \o Template(thrown.message))

\* catch (error) { return text(prefix + error.message) }: reading .message of
\* null or undefined throws a TypeError inside the catch block
Catch(prefix, thrown) ==
    IF thrown.type \in {"null", "undefined"}
    THEN Escapes
    ELSE TextResponse(prefix \o Template(thrown.message))

(***************************************************************************)
(* Tool 1: search_products.                                                *)
(***************************************************************************)
DefaultMaxResults == 10

\* the zod schema: max_results is optional with default 10; any number passes
SearchProductsSchema(raw) ==
    [query |-> raw.query,
     max_results |-> IF raw.max_results.present THEN raw.max_results.value
                     ELSE DefaultMaxResults]

SearchProductsRequest(a) == SearchRequest(a.query, a.max_results)

SearchProductsLine(item, index) ==
    ToString(index + 1) \o ". " \o OrElse(item.title, "Untitled")
        \o "\n   URL: " \o OrElse(item.url, "N/A")
        \o "\n   " \o OrElse(item.snippet, "No description available")

SearchProductsFormat(a, items) ==
    "Found " \o ToString(Len(items)) \o " products:\n\n"
        \o Join([k \in 1..Len(items) |-> SearchProductsLine(items[k], k - 1)], "\n\n")

SearchProductsEmpty(a) == "No products found for query: \"" \o a.query \o "\""

SearchProductsCatch(thrown) == Catch("Error searching products: ", thrown)

SearchProductsHandler(a, o) ==
    IF o.kind = "rejected" THEN SearchProductsCatch(o.thrown)
    ELSE IF IsEmpty(o.response) THEN TextResponse(SearchProductsEmpty(a))
    ELSE TextResponse(SearchProductsFormat(a, o.response.results))

(***************************************************************************)
(* Tool 2: get_product_details.                                            *)
(***************************************************************************)
ProductDetailsLimit == 3

ProductDetailsRequest(a) == SearchRequest(a.product_name, ProductDetailsLimit)

\* product.content || product.snippet || 'No description available'
ProductDetailsFormat(a, items) ==
    "Product: " \o OrElse(items[1].title, "Untitled")
        \o "\nURL: " \o OrElse(items[1].url, "N/A")
        \o "\n\nDescription:\n"
        \o OrElse(items[1].content,
                  OrElse(items[1].snippet, "No description available"))

ProductDetailsEmpty(a) == "Product not found: \"" \o a.product_name \o "\""

ProductDetailsCatch(thrown) == Catch("Error fetching product details: ", thrown)

ProductDetailsHandler(a, o) ==
    IF o.kind = "rejected" THEN ProductDetailsCatch(o.thrown)
    ELSE IF IsEmpty(o.response) THEN TextResponse(ProductDetailsEmpty(a))
    ELSE TextResponse(ProductDetailsFormat(a, o.response.results))

(***************************************************************************)
(* Tool 3: find_dietary_options.                                           *)
(***************************************************************************)
DietaryLimit == 10

DietaryQuery(a) ==
    IF Truthy(a.meal_type)
    THEN a.dietary_restriction \o " " \o a.meal_type.value
    ELSE a.dietary_restriction

DietaryRequest(a) == SearchRequest(DietaryQuery(a), DietaryLimit)

\* ${meal_type ? ` for ${meal_type}` : ''}
DietaryForMeal(a) == IF Truthy(a.meal_type) THEN " for " \o a.meal_type.value ELSE ""

\* variant of DietaryLine: numbers the items from 0
DietaryLine_ZeroBased(item, index) ==
    ToString(index) \o ". " \o OrElse(item.title, "Untitled")
        \o "\n   " \o OrElse(item.url, "N/A")

DietaryLine(item, index) ==
    ToString(index + 1) \o ". " \o OrElse(item.title, "Untitled")
        \o "\n   " \o OrElse(item.url, "N/A")

DietaryFormat(a, items) ==
    "Found " \o ToString(Len(items)) \o " " \o a.dietary_restriction \o " products"
        \o DietaryForMeal(a) \o ":\n\n"
        \o Join([k \in 1..Len(items) |-> DietaryLine(items[k], k - 1)], "\n\n")

DietaryEmpty(a) ==
    "No " \o a.dietary_restriction \o " products found" \o DietaryForMeal(a)

DietaryCatch(thrown) == Catch("Error finding dietary options: ", thrown)

DietaryHandler(a, o) ==
    IF o.kind = "rejected" THEN DietaryCatch(o.thrown)
    ELSE IF IsEmpty(o.response) THEN TextResponse(DietaryEmpty(a))
    ELSE TextResponse(DietaryFormat(a, o.response.results))

(***************************************************************************)
(* Tool 4: get_recommendations.                                            *)
(***************************************************************************)
RecommendationsLimit == 5

\* variant of RecommendationsQuery: appends the preferences without the test
RecommendationsQuery_Unconditional(a) ==
    a.occasion \o " gift meal" \o " " \o Template(a.preferences)

RecommendationsQuery(a) ==
    IF Truthy(a.preferences)
    THEN a.occasion \o " gift meal" \o " " \o a.preferences.value
    ELSE a.occasion \o " gift meal"

RecommendationsRequest(a) == SearchRequest(RecommendationsQuery(a), RecommendationsLimit)

\* item.snippet || '' : the empty string, not a placeholder
RecommendationsLine(item, index) ==
    ToString(index + 1) \o ". " \o OrElse(item.title, "Untitled")
        \o "\n   " \o OrElse(item.url, "N/A")
        \o "\n   " \o OrElse(item.snippet, "")

RecommendationsFormat(a, items) ==
    "Top recommendations for " \o a.occasion
        \o (IF Truthy(a.preferences) THEN " (" \o a.preferences.value \o ")" ELSE "")
        \o ":\n\n"
        \o Join([k \in 1..Len(items) |-> RecommendationsLine(items[k], k - 1)], "\n\n")

RecommendationsEmpty(a) == "No recommendations found for " \o a.occasion

RecommendationsCatch(thrown) == Catch("Error getting recommendations: ", thrown)

RecommendationsHandler(a, o) ==
    IF o.kind = "rejected" THEN RecommendationsCatch(o.thrown)
    ELSE IF IsEmpty(o.response) THEN TextResponse(RecommendationsEmpty(a))
    ELSE TextResponse(RecommendationsFormat(a, o.response.results))

\* the part of the handler of tool t that runs after the await
Continuation(t, a, o) ==
    IF t = "search_products" THEN SearchProductsHandler(a, o)
    ELSE IF t = "get_product_details" THEN ProductDetailsHandler(a, o)
    ELSE IF t = "find_dietary_options" THEN DietaryHandler(a, o)
    ELSE RecommendationsHandler(a, o)

(***************************************************************************)
(* The router: the default export's fetch.                                 *)
(***************************************************************************)
StatusDocument ==
    [name |-> "SendaMeal MCP Server", version |-> "1.0.0", status |-> "healthy",
     endpoints |-> [sse |-> "/sse", mcp |-> "/mcp"]]

\* JSON.stringify of the status document, keys in insertion order
JsonStringify(doc) ==
    "{\"name\":\"" \o doc.name \o "\",\"version\":\"" \o doc.version
        \o "\",\"status\":\"" \o doc.status
        \o "\",\"endpoints\":{\"sse\":\"" \o doc.endpoints.sse
        \o "\",\"mcp\":\"" \o doc.endpoints.mcp \o "\"}}"

OkStatus == 200

NotFoundStatus == 404

\* variant of Route: matches the streaming paths by prefix
Route_ByPrefix(pathname) ==
    IF StartsWith(pathname, "/sse") THEN "sse"
    ELSE IF pathname = "/mcp" THEN "mcp"
    ELSE IF pathname = "/" \/ pathname = "/health" THEN "health"
    ELSE "notfound"

\* the handling mode fetch selects for url.pathname
Route(pathname) ==
    IF pathname = "/sse" \/ pathname = "/sse/message" THEN "sse"
    ELSE IF pathname = "/mcp" THEN "mcp"
    ELSE IF pathname = "/" \/ pathname = "/health" THEN "health"
    ELSE "notfound"

\* SendaMealMCP.serveSSE("/sse").fetch(...): the response is the binding's
ServeSSE == [mode |-> "sse", binding |-> "serveSSE", mount |-> "/sse",
             status |-> 0, contentType |-> "", body |-> ""]

\* SendaMealMCP.serve("/mcp").fetch(...): the response is the binding's
Serve == [mode |-> "mcp", binding |-> "serve", mount |-> "/mcp",
          status |-> 0, contentType |-> "", body |-> ""]

\* variant of HealthResponse: the Content-Type header is left out
HealthResponse_NoHeader ==
    [mode |-> "health", binding |-> "none", mount |-> "",
     status |-> OkStatus, contentType |-> "text/plain;charset=UTF-8",
     body |-> JsonStringify(StatusDocument)]

\* new Response(JSON.stringify({...}), {headers}): the status defaults to 200
HealthResponse ==
    [mode |-> "health", binding |-> "none", mount |-> "",
     status |-> OkStatus, contentType |-> "application/json",
     body |-> JsonStringify(StatusDocument)]

\* new Response("Not found", {status: 404}): a string body is text/plain
NotFoundResponse ==
    [mode |-> "notfound", binding |-> "none", mount |-> "",
     status |-> NotFoundStatus, contentType |-> "text/plain;charset=UTF-8",
     body |-> "Not found"]

FetchResponse(pathname, method) ==
    IF Route(pathname) = "sse" THEN ServeSSE
    ELSE IF Route(pathname) = "mcp" THEN Serve
    ELSE IF Route(pathname) = "health" THEN HealthResponse
    ELSE NotFoundResponse

(***************************************************************************)
(* Inputs.                                                                 *)
(***************************************************************************)
Queries == {"pasta", "soup"}

\* z.number() accepts every number: zero and negatives are schema-valid
MaxResultsChoices == {NoNumber, Some(-1), Some(0), Some(3)}

SearchProductsInputs == [query : Queries, max_results : MaxResultsChoices]

ProductDetailsInputs == [product_name : {"Unicorn Cake", "soup"}]

DietaryInputs ==
    [dietary_restriction : {"vegan", "kosher"},
     meal_type : {Absent, Some(""), Some("dinner")}]

RecommendationsInputs ==
    [occasion : {"birthday", "sympathy"},
     preferences : {Absent, Some(""), Some("chocolate")}]

\* Search Result Items: every field may be missing, a present one may be ""
Items ==
    [title : {Absent, Some("Lasagna")}, url : {Absent, Some("https://x.test/l")},
     snippet : {Absent, Some("Cheesy")}, content : {Absent, Some("Layers")}]
    \cup {[title |-> Some(""), url |-> Some(""), snippet |-> Some(""),
           content |-> Some("")]}

RECURSIVE SeqsUpTo(_, _)
SeqsUpTo(S, n) ==
    IF n = 0 THEN {<<>>}
    ELSE LET shorter == SeqsUpTo(S, n - 1)
         IN  shorter \cup {Append(q, x) : q \in {r \in shorter : Len(r) = n - 1}, x \in S}

Responses == {NoResponse, NoResultsField} \cup {Results(q) : q \in SeqsUpTo(Items, MaxItems)}

\* what the capability may throw: an Error with a message, a value without
\* a message property, null, undefined
ThrownValues ==
    {[type |-> "object", message |-> Some("timeout")],
     [type |-> "object", message |-> Some("")],
     [type |-> "object", message |-> Absent],
     [type |-> "null", message |-> Absent],
     [type |-> "undefined", message |-> Absent]}

Paths == {"/", "/health", "/sse", "/sse/message", "/mcp", "/SSE", "/Health",
          "/mcp/", "/sse/other", "/health/live", "/favicon.ico"}

Methods == {"GET", "POST"}

\* the smaller input sets of the concurrent specification
ConcSearchProductsInputs == [query : Queries, max_results : {NoNumber}]

ConcProductDetailsInputs == [product_name : {"Unicorn Cake"}]

ConcDietaryInputs == [dietary_restriction : {"vegan"}, meal_type : {Absent}]

ConcRecommendationsInputs == [occasion : {"birthday"}, preferences : {Absent, Some("chocolate")}]

ConcResponses ==
    {NoResponse,
     Results(<<[title |-> Some("Lasagna"), url |-> Absent, snippet |-> Absent,
                content |-> Absent]>>)}

ConcThrownValues ==
    {[type |-> "object", message |-> Some("timeout")],
     [type |-> "null", message |-> Absent]}

(***************************************************************************)
(* State.                                                                  *)
(***************************************************************************)
NoArgs == [none |-> TRUE]

Init ==
    /\ pc = [i \in Invocations |-> "idle"]
    /\ tool = [i \in Invocations |-> "none"]
    /\ args = [i \in Invocations |-> NoArgs]
    /\ calls = [i \in Invocations |-> <<>>]
    /\ outcome = [i \in Invocations |-> Pending]
    /\ result = [i \in Invocations |-> NoResult]
    /\ settled = <<>>
    /\ httpLog = <<>>

\* search_products: the schema applies the default, the handler awaits autorag
InvokeSearchProducts(i, raw) ==
    /\ pc[i] = "idle"
    /\ pc' = [pc EXCEPT ![i] = "awaiting"]
    /\ tool' = [tool EXCEPT ![i] = "search_products"]
    /\ args' = [args EXCEPT ![i] = SearchProductsSchema(raw)]
    /\ calls' = [calls EXCEPT ![i] = Append(@, SearchProductsRequest(SearchProductsSchema(raw)))]
    /\ UNCHANGED <<outcome, result, settled, httpLog>>

InvokeGetProductDetails(i, raw) ==
    /\ pc[i] = "idle"
    /\ pc' = [pc EXCEPT ![i] = "awaiting"]
    /\ tool' = [tool EXCEPT ![i] = "get_product_details"]
    /\ args' = [args EXCEPT ![i] = raw]
    /\ calls' = [calls EXCEPT ![i] = Append(@, ProductDetailsRequest(raw))]
    /\ UNCHANGED <<outcome, result, settled, httpLog>>

InvokeFindDietaryOptions(i, raw) ==
    /\ pc[i] = "idle"
    /\ pc' = [pc EXCEPT ![i] = "awaiting"]
    /\ tool' = [tool EXCEPT ![i] = "find_dietary_options"]
    /\ args' = [args EXCEPT ![i] = raw]
    /\ calls' = [calls EXCEPT ![i] = Append(@, DietaryRequest(raw))]
    /\ UNCHANGED <<outcome, result, settled, httpLog>>

InvokeGetRecommendations(i, raw) ==
    /\ pc[i] = "idle"
    /\ pc' = [pc EXCEPT ![i] = "awaiting"]
    /\ tool' = [tool EXCEPT ![i] = "get_recommendations"]
    /\ args' = [args EXCEPT ![i] = raw]
    /\ calls' = [calls EXCEPT ![i] = Append(@, RecommendationsRequest(raw))]
    /\ UNCHANGED <<outcome, result, settled, httpLog>>

\* the awaited call resolves with resp and the handler runs to its return
CapabilityResolves(i, resp) ==
    /\ pc[i] = "awaiting"
    /\ pc' = [pc EXCEPT ![i] = "done"]
    /\ outcome' = [outcome EXCEPT ![i] = Resolved(resp)]
    /\ result' = [result EXCEPT ![i] = Continuation(tool[i], args[i], Resolved(resp))]
    /\ settled' = Append(settled, i)
    /\ UNCHANGED <<tool, args, calls, httpLog>>

\* variant of CapabilityRejects: the first failure is retried once
CapabilityRejects_Retry(i, thrown) ==
    /\ pc[i] = "awaiting"
    /\ IF Len(calls[i]) < 2
       THEN /\ calls' = [calls EXCEPT ![i] = Append(@, calls[i][1])]
            /\ UNCHANGED <<pc, outcome, result, settled>>
       ELSE /\ pc' = [pc EXCEPT ![i] = "done"]
            /\ outcome' = [outcome EXCEPT ![i] = Rejected(thrown)]
            /\ result' = [result EXCEPT ![i] = Continuation(tool[i], args[i], Rejected(thrown))]
            /\ settled' = Append(settled, i)
            /\ UNCHANGED calls
    /\ UNCHANGED <<tool, args, httpLog>>

\* the awaited call rejects with thrown: the catch block runs, with no new call
CapabilityRejects(i, thrown) ==
    /\ pc[i] = "awaiting"
    /\ pc' = [pc EXCEPT ![i] = "done"]
    /\ outcome' = [outcome EXCEPT ![i] = Rejected(thrown)]
    /\ result' = [result EXCEPT ![i] = Continuation(tool[i], args[i], Rejected(thrown))]
    /\ settled' = Append(settled, i)
    /\ UNCHANGED <<tool, args, calls, httpLog>>

Fetch(pathname, method) ==
    /\ Len(httpLog) < MaxRequests
    /\ httpLog' = Append(httpLog, [pathname |-> pathname, method |-> method,
                                   response |-> FetchResponse(pathname, method)])
    /\ UNCHANGED handlerVars

\* one client that awaits each response: a single invocation, every input
Next ==
    \/ \E raw \in SearchProductsInputs : InvokeSearchProducts(1, raw)
    \/ \E raw \in ProductDetailsInputs : InvokeGetProductDetails(1, raw)
    \/ \E raw \in DietaryInputs : InvokeFindDietaryOptions(1, raw)
    \/ \E raw \in RecommendationsInputs : InvokeGetRecommendations(1, raw)
    \/ \E resp \in Responses : CapabilityResolves(1, resp)
    \/ \E thrown \in ThrownValues : CapabilityRejects(1, thrown)

Spec == Init /\ [][Next]_vars

\* several invocations in flight at once, settling in any order
NextConcurrent ==
    \E i \in Invocations :
        \/ \E raw \in ConcSearchProductsInputs : InvokeSearchProducts(i, raw)
        \/ \E raw \in ConcProductDetailsInputs : InvokeGetProductDetails(i, raw)
        \/ \E raw \in ConcDietaryInputs : InvokeFindDietaryOptions(i, raw)
        \/ \E raw \in ConcRecommendationsInputs : InvokeGetRecommendations(i, raw)
        \/ \E resp \in ConcResponses : CapabilityResolves(i, resp)
        \/ \E thrown \in ConcThrownValues : CapabilityRejects(i, thrown)

SpecConcurrent == Init /\ [][NextConcurrent]_vars

\* the router alone: requests of every path and method
NextRouter == \E pathname \in Paths, method \in Methods : Fetch(pathname, method)

SpecRouter == Init /\ [][NextRouter]_vars

(***************************************************************************)
(* Properties.                                                             *)
(***************************************************************************)
Done(i) == pc[i] = "done"

Text(i) == result[i].content[1].text

Returned(i) == Done(i) /\ result[i].kind = "response"

ListedItems(i) == outcome[i].response.results

HasResults(i) == Done(i) /\ outcome[i].kind = "resolved" /\ ~IsEmpty(outcome[i].response)

HasNoResults(i) == Done(i) /\ outcome[i].kind = "resolved" /\ IsEmpty(outcome[i].response)

\* C1: whatever the search capability does, every finished invocation of a
\* tool has returned a response whose content is exactly one block of type
\* "text"; nothing the capability throws leaves the handler as an exception.
C1_AlwaysOneTextBlock ==
    \A i \in Invocations :
        Done(i) =>
            /\ result[i].kind = "response"
            /\ Len(result[i].content) = 1
            /\ result[i].content[1].type = "text"

\* the fixed error prefix of each tool, as documented
C2_Prefix(t) ==
    IF t = "search_products" THEN "Error searching products: "
    ELSE IF t = "get_product_details" THEN "Error fetching product details: "
    ELSE IF t = "find_dietary_options" THEN "Error finding dietary options: "
    ELSE "Error getting recommendations: "

RejectedWithMessage(i) ==
    /\ Done(i)
    /\ outcome[i].kind = "rejected"
    /\ outcome[i].thrown.type = "object"
    /\ outcome[i].thrown.message.present

\* C2: when the capability rejects with an error carrying message M, the
\* handler returns one text block that is exactly the tool's error prefix
\* followed by M, whatever the tool's arguments were.
C2_ErrorTextIsPrefixAndMessage ==
    \A i \in Invocations :
        RejectedWithMessage(i) =>
            /\ result[i].kind = "response"
            /\ Len(result[i].content) = 1
            /\ Text(i) = C2_Prefix(tool[i]) \o outcome[i].thrown.message.value

C2_Witness ==
    \E i \in Invocations :
        /\ RejectedWithMessage(i)
        /\ tool[i] = "get_recommendations"
        /\ Truthy(args[i].preferences)
        /\ outcome[i].thrown.message.value = "timeout"
        /\ Text(i) = "Error getting recommendations: timeout"

\* C3: when the call succeeds without results, the no-results message echoes
\* every argument the caller supplied (the optional meal_type and preferences
\* included); for get_product_details it is exactly: Product not found: "P".
C3_EmptyMessageEchoesAllArguments ==
    \A i \in Invocations :
        HasNoResults(i) =>
            /\ Returned(i)
            /\ tool[i] = "search_products" => Contains(Text(i), args[i].query)
            /\ tool[i] = "get_product_details" =>
                   Text(i) = "Product not found: \"" \o args[i].product_name \o "\""
            /\ tool[i] = "find_dietary_options" =>
                   /\ Contains(Text(i), args[i].dietary_restriction)
                   /\ Truthy(args[i].meal_type) =>
                          Contains(Text(i), args[i].meal_type.value)
            /\ tool[i] = "get_recommendations" =>
                   /\ Contains(Text(i), args[i].occasion)
                   /\ Truthy(args[i].preferences) =>
                          Contains(Text(i), args[i].preferences.value)

\* an empty field slot: a line of the item template that holds only its indent
HasEmptySlot(t) == EndsWith(t, "\n   ") \/ Contains(t, "\n   \n")

\* C4: in the formatted output of every tool no field slot of an item is
\* rendered empty or as the word "undefined", and an item without a title or
\* a url shows the placeholder "Untitled" or "N/A" in its place.
C4_NoEmptyOrUndefinedSlot ==
    \A i \in Invocations :
        HasResults(i) =>
            /\ Returned(i)
            /\ ~HasEmptySlot(Text(i))
            /\ ~Contains(Text(i), "undefined")
            /\ tool[i] # "get_product_details" =>
                   \A k \in 1..Len(ListedItems(i)) :
                       ~Truthy(ListedItems(i)[k].title) =>
                           Contains(Text(i), ToString(k) \o ". Untitled\n")
            /\ tool[i] = "get_product_details" =>
                   /\ ~Truthy(ListedItems(i)[1].title) =>
                          StartsWith(Text(i), "Product: Untitled\n")
                   /\ ~Truthy(ListedItems(i)[1].url) =>
                          Contains(Text(i), "\nURL: N/A\n")
                   /\ (~Truthy(ListedItems(i)[1].content)
                          /\ ~Truthy(ListedItems(i)[1].snippet)) =>
                          EndsWith(Text(i), "Description:\nNo description available")

\* C5: every request path selects exactly one handling mode: "/sse" and
\* "/sse/message" go to the streaming binding mounted at "/sse", "/mcp" to the
\* session binding mounted at "/mcp", "/" and "/health" return the status
\* document, and every other path returns 404 with the plain-text body
\* "Not found".
C5_RouterSelectsExactlyOneMode ==
    \A n \in 1..Len(httpLog) :
        LET p == httpLog[n].pathname
            r == httpLog[n].response
        IN  /\ Cardinality({m \in {"sse", "mcp", "health", "notfound"} : r.mode = m}) = 1
            /\ p \in {"/sse", "/sse/message"} <=>
                   (r.mode = "sse" /\ r.binding = "serveSSE" /\ r.mount = "/sse")
            /\ p = "/mcp" <=> (r.mode = "mcp" /\ r.binding = "serve" /\ r.mount = "/mcp")
            /\ p \in {"/", "/health"} <=>
                   (r.mode = "health" /\ r.body = JsonStringify(StatusDocument))
            /\ p \notin {"/sse", "/sse/message", "/mcp", "/", "/health"} <=>
                   (r.mode = "notfound" /\ r.status = 404 /\ r.body = "Not found"
                       /\ StartsWith(r.contentType, "text/plain"))

C5_Witness ==
    /\ Len(httpLog) = 2
    /\ httpLog[1].pathname = "/SSE" /\ httpLog[1].response.status = 404
    /\ httpLog[2].pathname = "/sse/message" /\ httpLog[2].response.binding = "serveSSE"

IsHealthPath(p) == p = "/" \/ p = "/health"

\* C6: "/" and "/health" both return status 200, content-type
\* application/json and the same status document {name, version,
\* status: "healthy", endpoints: {sse: "/sse", mcp: "/mcp"}}, whatever the
\* path, the request method and the requests that came before.
C6_HealthDocumentIsFixed ==
    \A n \in 1..Len(httpLog) :
        IsHealthPath(httpLog[n].pathname) =>
            LET r == httpLog[n].response
            IN  /\ r.status = 200
                /\ r.contentType = "application/json"
                /\ StartsWith(r.body, "{\"name\":\"")
                /\ Contains(r.body, "\",\"version\":\"")
                /\ EndsWith(r.body,
                       "\",\"status\":\"healthy\",\"endpoints\":{\"sse\":\"/sse\",\"mcp\":\"/mcp\"}}")
                /\ \A m \in 1..Len(httpLog) :
                       IsHealthPath(httpLog[m].pathname) => httpLog[m].response = r

C6_Witness ==
    /\ Len(httpLog) = 2
    /\ httpLog[1].pathname = "/" /\ httpLog[1].method = "GET"
    /\ httpLog[2].pathname = "/health" /\ httpLog[2].method = "POST"
    /\ httpLog[2].response.status = 200

IsRecommendation(i) == pc[i] # "idle" /\ tool[i] = "get_recommendations"

\* C7 as stated: the query get_recommendations passes to the capability is
\* the occasion followed by " gift meal", and by " " and the preferences if
\* and only if the caller supplied preferences.
C7_SuffixIffPreferencesSupplied ==
    \A i \in Invocations :
        IsRecommendation(i) =>
            calls[i][1].query =
                IF args[i].preferences.present
                THEN args[i].occasion \o " gift meal " \o args[i].preferences.value
                ELSE args[i].occasion \o " gift meal"

\* C7 as amended: the suffix is appended if and only if the caller supplied
\* preferences that are not the empty string; with preferences omitted or
\* empty the query is exactly the occasion followed by " gift meal".
C7_SuffixIffPreferencesNonEmpty ==
    \A i \in Invocations :
        IsRecommendation(i) =>
            /\ Len(calls[i]) = 1
            /\ calls[i][1].query =
                   IF args[i].preferences.present /\ args[i].preferences.value # ""
                   THEN args[i].occasion \o " gift meal " \o args[i].preferences.value
                   ELSE args[i].occasion \o " gift meal"

C7_Witness ==
    \E i \in Invocations :
        /\ IsRecommendation(i)
        /\ args[i].occasion = "birthday"
        /\ args[i].preferences = Some("chocolate")
        /\ calls[i][1].query = "birthday gift meal chocolate"

\* the listing the find_dietary_options template documents, items k..n
RECURSIVE C8_Listing(_, _)
C8_Listing(items, k) ==
    IF k > Len(items) THEN ""
    ELSE (IF k = 1 THEN "" ELSE "\n\n")
         \o ToString(k) \o ". "
         \o (IF items[k].title.present /\ items[k].title.value # ""
             THEN items[k].title.value ELSE "Untitled")
         \o "\n   "
         \o (IF items[k].url.present /\ items[k].url.value # ""
             THEN items[k].url.value ELSE "N/A")
         \o C8_Listing(items, k + 1)

DietaryListed(i) ==
    /\ HasResults(i)
    /\ tool[i] = "find_dietary_options"
    /\ ~args[i].meal_type.present

\* C8: find_dietary_options with restriction R and no meal_type, answered
\* with n >= 1 items, returns a text that begins "Found n R products:" and
\* lists the n items in the order returned, the i-th prefixed "i. ", i from
\* 1 to n.
C8_DietaryListingInOrder ==
    \A i \in Invocations :
        DietaryListed(i) =>
            LET n == Len(ListedItems(i))
                header == "Found " \o ToString(n) \o " "
                              \o args[i].dietary_restriction \o " products:"
            IN  /\ Returned(i)
                /\ StartsWith(Text(i), header)
                /\ Text(i) = header \o "\n\n" \o C8_Listing(ListedItems(i), 1)

C8_Witness ==
    \E i \in Invocations :
        /\ DietaryListed(i)
        /\ args[i].dietary_restriction = "vegan"
        /\ Len(ListedItems(i)) = 2
        /\ ListedItems(i)[1].title = Absent
        /\ ListedItems(i)[2].title = Some("Lasagna")
        /\ StartsWith(Text(i), "Found 2 vegan products:\n\n1. Untitled\n")
        /\ Contains(Text(i), "\n\n2. Lasagna\n")

\* C9: every Search Request carries the fixed index and a limit that is a
\* positive integer: max_results or 10 for search_products, 3 for
\* get_product_details, 10 for find_dietary_options, 5 for get_recommendations.
C9_LimitIsPositiveInteger ==
    \A i \in Invocations :
        pc[i] # "idle" =>
            /\ Len(calls[i]) = 1
            /\ calls[i][1].index = "cool-bush-e0f4"
            /\ calls[i][1].maxResults \in Nat \ {0}
            /\ tool[i] = "search_products" => calls[i][1].maxResults = args[i].max_results
            /\ tool[i] = "get_product_details" => calls[i][1].maxResults = 3
            /\ tool[i] = "find_dietary_options" => calls[i][1].maxResults = 10
            /\ tool[i] = "get_recommendations" => calls[i][1].maxResults = 5

\* each invocation has called the capability once, and only once it started
CallsOnce == \A i \in Invocations : Len(calls[i]) = IF pc[i] = "idle" THEN 0 ELSE 1

\* two finished invocations with the same tool, arguments and capability
\* outcome have the same result, whatever else was in flight
Independent ==
    \A i, j \in Invocations :
        (Done(i) /\ Done(j) /\ tool[i] = tool[j] /\ args[i] = args[j]
            /\ outcome[i] = outcome[j]) => result[i] = result[j]

\* a finished invocation is not touched by the steps of the others
FinishedStaysPut ==
    \A i \in Invocations :
        Done(i) => (pc'[i] = "done" /\ result'[i] = result[i] /\ calls'[i] = calls[i]
                       /\ outcome'[i] = outcome[i])

\* C10: each invocation calls the capability exactly once on every path and
\* never again after the call settles (no retry); with several invocations in
\* flight, each result depends only on that invocation's own arguments and
\* outcome, in whatever order the calls settle.
C10_OneCallNoRetryIndependent ==
    [](CallsOnce /\ Independent) /\ [][FinishedStaysPut]_vars

C10_Witness ==
    /\ settled = <<2, 1>>
    /\ Done(1) /\ Done(2)
    /\ outcome[1].kind = "rejected" /\ outcome[2].kind = "resolved"
    /\ tool[1] = tool[2] /\ args[1] = args[2]
    /\ result[1] # result[2]
    /\ Len(calls[1]) = 1 /\ Len(calls[2]) = 1

====
